---- MODULE Spec2Model ----
EXTENDS Integers, Sequences, FiniteSets, TLC

\* Model of core/container/kubernetescontroller/kubernetescontroller.go:
\* the KubernetesAPI lifecycle controller (Start / Stop / Wait / HealthCheck),
\* its ExitHandles registry, and the pod / config-map state of the
\* orchestrator it talks to.  Strings are sequences of one-character strings.

\* ---------------------------------------------------------------- bounds

\* Goroutines that call Start, Stop and HealthCheck on one KubernetesAPI.
NumCallers == 2

\* Goroutines that call Wait on it (the container runtime waits for an
\* instance on a goroutine of its own).
NumWaiters == 2

Callers == 1..NumCallers

Waiters == (NumCallers + 1)..(NumCallers + NumWaiters)

Procs == Callers \cup Waiters

\* The loads the controller is exercised under: callers racing one another
\* on a namespace only this controller writes to, and one caller with
\* waiters on a namespace that may also hold pods of another writer.
Loads ==
    {[callers |-> Callers, waiters |-> {}, foreign |-> FALSE],
     [callers |-> {1}, waiters |-> Waiters, foreign |-> TRUE]}

\* ------------------------------------------------------- names and labels

Lower == {"a","b","c","d","e","f","g","h","i","j","k","l","m",
          "n","o","p","q","r","s","t","u","v","w","x","y","z"}

Upper == {"A","B","C","D","E","F","G","H","I","J","K","L","M",
          "N","O","P","Q","R","S","T","U","V","W","X","Y","Z"}

Digit == {"0","1","2","3","4","5","6","7","8","9"}

\* podRegExp = "[^a-zA-Z0-9-_.]": true of a character the expression matches.
podRegExp(ch) == ch \notin (Lower \cup Upper \cup Digit \cup {"-", "_", "."})

\* A sanitizer that drops the characters the expression matches.
ReplaceAllString_Drop(s) == SelectSeq(s, LAMBDA ch : ~podRegExp(ch))

\* regexp.ReplaceAllString(name, "-") for a one-character class.
ReplaceAllString(s) == [i \in 1..Len(s) |-> IF podRegExp(s[i]) THEN "-" ELSE s[i]]

\* ccintf.CCID.GetName: the descriptor's name.
GetName(ccid) == ccid.Name

\* KubernetesAPI.GetPodName for the controller of peer peerID.
GetPodName(peerID, ccid) ==
    LET name == GetName(ccid)
        full == IF peerID # <<>>
                THEN <<"c","c","-">> \o peerID \o <<"-">> \o name
                ELSE <<"c","c","-">> \o name
    IN  ReplaceAllString(full)

\* The peer this controller instance schedules chaincodes for (api.PeerID).
PeerID == <<"p">>

\* The chaincodes the callers ask for.
CCIDs == {[Name |-> <<"a">>, Version |-> <<"1">>]}

PodName(c) == GetPodName(PeerID, c)

\* The labels Start puts on a pod: peer-owner, ccname, ccver.
PodLabels(c) == [owner |-> PeerID, ccname |-> c.Name, ccver |-> c.Version]

\* The pod descriptor Start submits (name and identity labels).
PodFor(c) == [name |-> PodName(c), labels |-> PodLabels(c)]

\* A pod carrying the same labels that this controller did not name
\* (left by another writer of the namespace).
ForeignPod(c) == [name |-> <<"x","-">> \o c.Name, labels |-> PodLabels(c)]

ForeignPods == {ForeignPod(c) : c \in CCIDs}

AllPodNames == {PodName(c) : c \in CCIDs} \cup {fp.name : fp \in ForeignPods}

\* --------------------------------------------------- resource quantities

\* The four configuration keys getResourceRequest reads, in its order.
ResourceKeys == <<"limits.cpu", "limits.memory", "requests.cpu", "requests.memory">>

\* Quantity strings a configuration may hold: "" is an unset key, "500m" and
\* "256Mi" parse, "bad" does not.
QuantityStrings == {"", "500m", "256Mi", "bad"}

\* resource.ParseQuantity: the strings it accepts.
ParseQuantityOK(q) == q \in {"500m", "256Mi"}

\* getResourceQuantity(key) under configuration cfg: nil when the key is
\* unset, the quantity when it parses, an error otherwise.
getResourceQuantity(cfg, key) ==
    IF cfg[key] = "" THEN [err |-> "nil", qty |-> "nil"]
    ELSE IF ParseQuantityOK(cfg[key]) THEN [err |-> "nil", qty |-> cfg[key]]
    ELSE [err |-> "ConfigErr", qty |-> "nil"]

\* The closure setQuantityFromConfig applied to the keys ks in order, starting
\* from the requirements rr: every provided quantity is stored in rr.Requests
\* under the key's resource name; the first error stops the build and is
\* returned as resource.ParseQuantity made it, with empty requirements.
RECURSIVE setQuantitiesFromConfig(_, _, _)
setQuantitiesFromConfig(cfg, ks, rr) ==
    IF ks = <<>> THEN [err |-> "nil", res |-> rr]
    ELSE LET k == Head(ks)
             q == getResourceQuantity(cfg, k)
         IN  IF q.err # "nil"
             THEN [err |-> q.err, res |-> [Limits |-> <<>>, Requests |-> <<>>]]
             ELSE IF q.qty = "nil"
             THEN setQuantitiesFromConfig(cfg, Tail(ks), rr)
             ELSE setQuantitiesFromConfig(cfg, Tail(ks),
                      [rr EXCEPT !.Requests = (k :> q.qty) @@ @])

\* getResourceRequest: Limits and Requests start empty.
getResourceRequest(cfg) ==
    setQuantitiesFromConfig(cfg, ResourceKeys, [Limits |-> <<>>, Requests |-> <<>>])

\* The configurations a Start may find in effect.
Configs == [{ResourceKeys[i] : i \in 1..Len(ResourceKeys)} -> QuantityStrings]

\* The errors getResourceRequest can return over those configurations.
ResourceErrs == {getResourceRequest(cfg).err : cfg \in Configs}

\* ------------------------------------------------------------------ state

\* A nil *chan string.
Nil == 0

\* Identities of the channels Start allocates.  At most one channel per
\* registry key and one per caller can be referenced at a time.
ChanIds == 1..(Cardinality(AllPodNames) + Cardinality(Procs))

VARIABLES
    load,        \* the load of this run: who calls, what the namespace may hold
    pods,        \* orchestrator: the live pods, records [name, labels]
    configmaps,  \* orchestrator: names of the existing config maps
    chaincodes,  \* ExitHandles.chaincodes: the map from pod name to channel
    closed,      \* channel -> whether close() has been called on it
    panicked,    \* the process died of "close of closed channel"
    pc,          \* per caller: where it is in its call
    op,          \* per caller: the call in progress [kind, ccid]
    items,       \* per caller: ccPods.Items of stopAllInternal (pod names)
    idx,         \* per caller: how many items the loop has taken up
    err,         \* per caller: err of the current Delete
    cc,          \* per caller: the channel GetInstance returned
    issued,      \* per caller: orchestrator calls issued by the function it is in
    ret,         \* per caller: the call's return value, "none" while running
    mu,          \* ExitHandles.mutex: the goroutine holding it, Nil when free
    stopped,     \* per caller: its previous call was a Stop that tore down
                 \* and returned success
    dnIn,        \* name derivation: the (peer, chaincode) inputs
    dnOut,       \* name derivation: the names GetPodName returned for them
    files,       \* extractCommonRoot: filesToUpload, path -> payload
    run,         \* extractCommonRoot: the runs on files, each with its locals
    rrCfg,       \* getResourceRequest: the configuration in effect
    rrOut,       \* getResourceRequest: what it returned
    env,         \* createChaincodePodDeployment: the env entries passed in
    envvars,     \* createChaincodePodDeployment: the EnvVar list built of them
    readOnly,    \* VaultKeyStore: readOnly
    ksVersion,   \* VaultKeyStore: config.Version
    secrets,     \* the vault: path key (the SKI) -> the secret stored
    ksRet        \* VaultKeyStore: the last call and what it returned

vars == <<load, pods, configmaps, chaincodes, closed, panicked,
          pc, op, items, idx, err, cc, issued, ret, mu, stopped,
          dnIn, dnOut, files, run, rrCfg, rrOut, env, envvars,
          readOnly, ksVersion, secrets, ksRet>>

\* The state of the controller and of the orchestrator.
ctlVars == <<load, pods, configmaps, chaincodes, closed, panicked,
             pc, op, items, idx, err, cc, issued, ret, mu, stopped>>

\* The state of the pure functions' runs.
fnVars == <<dnIn, dnOut, files, run, rrCfg, rrOut, env, envvars,
            readOnly, ksVersion, secrets, ksRet>>

nameVars == <<dnIn, dnOut>>

ecrVars == <<files, run>>

resVars == <<rrCfg, rrOut>>

splitVars == <<env, envvars>>

ksVars == <<readOnly, ksVersion, secrets, ksRet>>

\* The parts of the state a run that does not use them leaves at rest.
NameAtRest == dnIn = <<>> /\ dnOut = <<>>

EcrAtRest == files = <<>> /\ run = <<>>

ResAtRest == rrCfg = <<>> /\ rrOut = <<>>

SplitAtRest == env = <<>> /\ envvars = <<>>

KsAtRest == readOnly = FALSE /\ ksVersion = 0 /\ secrets = <<>> /\ ksRet = <<>>

sharedVars == <<load, pods, configmaps, chaincodes, closed, panicked>>

NoOp == [kind |-> "none"]

Range(f) == {f[x] : x \in DOMAIN f}

\* A Lock that does not wait for the holder.
Lock_NoWait == TRUE

\* handles.mutex.Lock(): goes through when no goroutine holds the mutex.
Lock == mu = Nil

\* A GetInstance that leaves the mutex with the goroutine that took it.
Unlock_NotInGet(p, method) == IF method = "GetInstance" THEN p ELSE Nil

\* defer handles.mutex.Unlock(): the holder of the mutex once the method of
\* ExitHandles that goroutine p called has returned.
Unlock(p, method) == Nil

\* ExitHandles.GetInstance: the map's value, nil for a name it does not hold.
GetInstance(name) == IF name \in DOMAIN chaincodes THEN chaincodes[name] ELSE Nil

\* ExitHandles.SetInstance: the map after handles.chaincodes[name] = inst.
SetInstanceMap(name, inst) ==
    [n \in DOMAIN chaincodes \cup {name} |-> IF n = name THEN inst ELSE chaincodes[n]]

\* ExitHandles.RemoveInstance: the map after delete(handles.chaincodes, name).
RemoveInstanceMap(name) == [n \in DOMAIN chaincodes \ {name} |-> chaincodes[n]]

\* Channels still reachable from the registry or from a caller's local.
Referenced(reg, locals) == (Range(reg) \cup Range(locals)) \ {Nil}

\* make(chan string, 1): an identity no live reference holds.
NewChan(reg, locals) ==
    CHOOSE c \in ChanIds :
        /\ c \notin Referenced(reg, locals)
        /\ \A d \in ChanIds : d \notin Referenced(reg, locals) => c <= d

\* An unreachable channel is collected; its identity comes back open.
Collect(cl, reg, locals) ==
    [c \in ChanIds |-> cl[c] /\ c \in Referenced(reg, locals)]

\* Pods the orchestrator may already hold when the controller is constructed:
\* pods of an earlier run of this peer, and pods with the same labels.
Init ==
    /\ load \in Loads
    /\ pods \in SUBSET ({PodFor(c) : c \in CCIDs}
                        \cup (IF load.foreign THEN ForeignPods ELSE {}))
    /\ configmaps \in SUBSET {PodName(c) : c \in CCIDs}
    /\ chaincodes = <<>>
    /\ closed = [c \in ChanIds |-> FALSE]
    /\ panicked = FALSE
    /\ pc = [p \in Procs |-> "idle"]
    /\ op = [p \in Procs |-> NoOp]
    /\ items = [p \in Procs |-> <<>>]
    /\ idx = [p \in Procs |-> 0]
    /\ err = [p \in Procs |-> "nil"]
    /\ cc = [p \in Procs |-> Nil]
    /\ issued = [p \in Procs |-> <<>>]
    /\ ret = [p \in Procs |-> [err |-> "none", code |-> 0]]
    /\ mu = Nil
    /\ stopped = [p \in Procs |-> FALSE]
    /\ NameAtRest /\ EcrAtRest /\ ResAtRest /\ SplitAtRest /\ KsAtRest

\* ---------------------------------------------------------------- helpers

\* A call's return value: the error and, for Wait, the exit status.
Ret(e) == [err |-> e, code |-> 0]

NoRet == [err |-> "none", code |-> 0]

\* All orderings of a set of pod names (the order of PodList.Items).
RECURSIVE Orderings(_)
Orderings(S) ==
    IF S = {} THEN {<<>>}
    ELSE UNION {{<<x>> \o t : t \in Orderings(S \ {x})} : x \in S}

\* FindPeerCCPods: the names of the pods whose labels match
\* peer-owner, ccname, ccver of the chaincode.
FindPeerCCPods(c) == {pod.name : pod \in {q \in pods : q.labels = PodLabels(c)}}

\* A Start that gives up when stopAllInternal fails.
StartAfterStopAll_Abort(e) ==
    IF e = "nil" THEN [pc |-> "cmList", ret |-> [err |-> "none", code |-> 0]]
    ELSE [pc |-> "ret", ret |-> [err |-> e, code |-> 0]]

\* Start discards what stopAllInternal returns and goes on to the deployment.
StartAfterStopAll(e) == [pc |-> "cmList", ret |-> NoRet]

\* Stop returns what stopAllInternal returns.
StopAfterStopAll(e) == [pc |-> "ret", ret |-> Ret(e)]

\* Where a call of the given kind goes when its stopAllInternal returns e.
AfterStopAll(kind, e) ==
    IF kind = "Start" THEN StartAfterStopAll(e) ELSE StopAfterStopAll(e)

\* The pod the loop of stopAllInternal is at.
CurItem(p) == items[p][idx[p] + 1]

Log(p, call) == [issued EXCEPT ![p] = Append(@, call)]

\* stopAllInternal returns e to a call of the given kind, having issued the
\* calls in log and taken up n items.  Its frame (the items, the calls it
\* issued) stays visible only in the result handed back by Stop.
StopAllReturns(p, kind, e, log, n) ==
    LET a == AfterStopAll(kind, e)
    IN  /\ pc' = [pc EXCEPT ![p] = a.pc]
        /\ ret' = [ret EXCEPT ![p] = a.ret]
        /\ issued' = [issued EXCEPT ![p] = IF a.pc = "ret" THEN log ELSE <<>>]
        /\ items' = [items EXCEPT ![p] = IF a.pc = "ret" THEN @ ELSE <<>>]
        /\ idx' = [idx EXCEPT ![p] = IF a.pc = "ret" THEN n ELSE 0]

\* A finished call hands its result back before any other caller moves: the
\* return touches nothing shared.
Running == ~panicked /\ \A q \in Procs : pc[q] # "ret"

\* The waiters blocked in the receive of a Wait on chaincode c.
BlockedOn(c) ==
    {w \in Procs : pc[w] = "waitRecv" /\ op[w].ccid = c /\ ~closed[cc[w]]}

\* Goroutines of one kind are interchangeable: a new call is taken by the
\* first idle one of its kind.
CanCall(p, kind) ==
    /\ Running
    /\ p \in kind /\ pc[p] = "idle"
    /\ \A q \in kind : q < p => pc[q] # "idle"

Calling == load.callers

Waiting == load.waiters

\* ---------------------------------------------------------------- actions

\* A teardown that takes a failed list for an empty one.
StopList_IgnoreErr(p, kind, c) ==
    \/ /\ items' = [items EXCEPT ![p] = <<>>]
       /\ issued' = Log(p, "list")
       /\ pc' = [pc EXCEPT ![p] = "stopDelCM"]
       /\ UNCHANGED <<ret, idx>>
    \/ \E order \in Orderings(FindPeerCCPods(c)) :
           /\ items' = [items EXCEPT ![p] = order]
           /\ issued' = Log(p, "list")
           /\ pc' = [pc EXCEPT ![p] =
                         IF order = <<>> THEN "stopDelCM" ELSE "stopDelete"]
           /\ UNCHANGED <<ret, idx>>

\* The first statement of stopAllInternal, the List call of FindPeerCCPods,
\* in a call of the given kind: it fails, or answers with the matching pods.
StopList(p, kind, c) ==
    \/ StopAllReturns(p, kind, "ListErr", <<"list">>, 0)
    \/ \E order \in Orderings(FindPeerCCPods(c)) :
           /\ items' = [items EXCEPT ![p] = order]
           /\ issued' = Log(p, "list")
           /\ pc' = [pc EXCEPT ![p] =
                         IF order = <<>> THEN "stopDelCM" ELSE "stopDelete"]
           /\ UNCHANGED <<ret, idx>>

\* Start: its first effect is stopAllInternal(ccid).
Start(p, c) ==
    /\ CanCall(p, Calling)
    /\ op' = [op EXCEPT ![p] = [kind |-> "Start", ccid |-> c]]
    /\ StopList(p, "Start", c)
    /\ UNCHANGED <<fnVars, mu, stopped, sharedVars, err, cc>>

\* A Stop that tears down only when neither option is set.
Stop_EitherOption(p, c, dontkill, dontremove) ==
    /\ CanCall(p, Calling)
    /\ op' = [op EXCEPT ![p] = [kind |-> "Stop", ccid |-> c,
                                dontremove |-> dontremove,
                                waiting |-> BlockedOn(c)]]
    /\ IF ~dontkill /\ ~dontremove
       THEN StopList(p, "Stop", c)
       ELSE /\ pc' = [pc EXCEPT ![p] = "ret"]
            /\ ret' = [ret EXCEPT ![p] = Ret("nil")]
            /\ UNCHANGED <<items, idx, issued>>
    /\ UNCHANGED <<fnVars, mu, stopped, sharedVars, err, cc>>

\* Stop: stopAllInternal unless dontremove is set, then nil at once.
Stop(p, c, dontkill, dontremove) ==
    /\ CanCall(p, Calling)
    /\ op' = [op EXCEPT ![p] = [kind |-> "Stop", ccid |-> c,
                                dontremove |-> dontremove,
                                waiting |-> BlockedOn(c)]]
    /\ IF ~dontremove /\ ~dontremove
       THEN StopList(p, "Stop", c)
       ELSE /\ pc' = [pc EXCEPT ![p] = "ret"]
            /\ ret' = [ret EXCEPT ![p] = Ret("nil")]
            /\ UNCHANGED <<items, idx, issued>>
    /\ UNCHANGED <<fnVars, mu, stopped, sharedVars, err, cc>>

\* A Wait that reports success for a name without a handle.
WaitNotFound_Success == [err |-> "nil", code |-> 0]

\* What Wait returns when GetInstance finds no handle.
WaitNotFound == [err |-> "NotFound", code |-> 0]

\* What Wait returns once the channel has yielded.
WaitExited == [err |-> "nil", code |-> 0]

\* Wait: cc := api.chaincodes.GetInstance(podName); nil returns the error at
\* once, otherwise the caller goes on to receive from the channel.
Wait(p, c) ==
    /\ CanCall(p, Waiting)
    /\ Lock /\ mu' = Unlock(p, "GetInstance")
    /\ op' = [op EXCEPT ![p] = [kind |-> "Wait", ccid |-> c]]
    /\ IF GetInstance(PodName(c)) = Nil
       THEN /\ pc' = [pc EXCEPT ![p] = "ret"]
            /\ ret' = [ret EXCEPT ![p] = WaitNotFound]
            /\ cc' = cc
       ELSE /\ pc' = [pc EXCEPT ![p] = "waitRecv"]
            /\ cc' = [cc EXCEPT ![p] = GetInstance(PodName(c))]
            /\ ret' = ret
    /\ UNCHANGED <<fnVars, stopped, sharedVars, items, idx, err, issued>>

\* HealthCheck: nothing is checked, nil is returned.
HealthCheck(p) ==
    /\ CanCall(p, Calling)
    /\ op' = [op EXCEPT ![p] = [kind |-> "HealthCheck"]]
    /\ pc' = [pc EXCEPT ![p] = "ret"]
    /\ ret' = [ret EXCEPT ![p] = Ret("nil")]
    /\ UNCHANGED <<fnVars, mu, stopped, sharedVars, items, idx, err, cc, issued>>

\* The Delete call for the current pod, with a zero grace period.
StopDelete(p) ==
    /\ Running /\ pc[p] = "stopDelete"
    /\ issued' = Log(p, "delete")
    /\ LET live == {q \in pods : q.name = CurItem(p)}
       IN  IF live = {}
           THEN /\ err' = [err EXCEPT ![p] = "PodNotFound"]
                /\ pods' = pods
           ELSE \/ /\ err' = [err EXCEPT ![p] = "nil"]
                   /\ pods' = pods \ live
                \/ /\ err' = [err EXCEPT ![p] = "DeleteErr"]
                   /\ pods' = pods
    /\ pc' = [pc EXCEPT ![p] = "stopGet"]
    /\ UNCHANGED <<fnVars, mu, stopped, load, configmaps, chaincodes, closed, panicked,
                   op, items, idx, cc, ret>>

\* A teardown that carries on with the next item whatever the Delete returned.
NextItem_BestEffort(p) ==
    /\ pc' = [pc EXCEPT ![p] = IF idx[p] + 1 < Len(items[p])
                               THEN "stopDelete" ELSE "stopDelCM"]
    /\ idx' = [idx EXCEPT ![p] = @ + 1]
    /\ UNCHANGED <<ret, items, issued, err>>

\* After the handle of the current item is dealt with: a Delete error
\* returns, otherwise the loop goes to the next item or on to the config map.
NextItem(p) ==
    IF err[p] # "nil"
    THEN /\ StopAllReturns(p, op[p].kind, err[p], issued[p], idx[p] + 1)
         /\ err' = [err EXCEPT ![p] = IF op[p].kind = "Stop" THEN @ ELSE "nil"]
    ELSE /\ pc' = [pc EXCEPT ![p] = IF idx[p] + 1 < Len(items[p])
                                    THEN "stopDelete" ELSE "stopDelCM"]
         /\ idx' = [idx EXCEPT ![p] = @ + 1]
         /\ UNCHANGED <<ret, items, issued, err>>

\* A teardown that checks the Delete error before it looks the handle up.
StopGet_ErrFirst(p) ==
    /\ Running /\ pc[p] = "stopGet"
    /\ Lock /\ mu' = Unlock(p, "GetInstance")
    /\ IF err[p] # "nil" \/ GetInstance(CurItem(p)) = Nil
       THEN /\ NextItem(p)
            /\ cc' = cc
       ELSE /\ cc' = [cc EXCEPT ![p] = GetInstance(CurItem(p))]
            /\ pc' = [pc EXCEPT ![p] = "stopClose"]
            /\ UNCHANGED <<ret, idx, err, items, issued>>
    /\ UNCHANGED <<fnVars, stopped, sharedVars, op>>

\* cc := api.chaincodes.GetInstance(pod.Name); a nil cc skips close and remove.
StopGet(p) ==
    /\ Running /\ pc[p] = "stopGet"
    /\ Lock /\ mu' = Unlock(p, "GetInstance")
    /\ IF GetInstance(CurItem(p)) = Nil
       THEN /\ NextItem(p)
            /\ cc' = cc
       ELSE /\ cc' = [cc EXCEPT ![p] = GetInstance(CurItem(p))]
            /\ pc' = [pc EXCEPT ![p] = "stopClose"]
            /\ UNCHANGED <<ret, idx, err, items, issued>>
    /\ UNCHANGED <<fnVars, stopped, sharedVars, op>>

\* close(*cc): closing a closed channel panics.
StopClose(p) ==
    /\ Running /\ pc[p] = "stopClose"
    /\ IF closed[cc[p]]
       THEN /\ panicked' = TRUE
            /\ UNCHANGED <<closed, pc>>
       ELSE /\ closed' = [closed EXCEPT ![cc[p]] = TRUE]
            /\ pc' = [pc EXCEPT ![p] = "stopRemove"]
            /\ panicked' = panicked
    /\ UNCHANGED <<fnVars, mu, stopped, load, pods, configmaps, chaincodes,
                   op, items, idx, err, cc, issued, ret>>

\* api.chaincodes.RemoveInstance(pod.Name), then the check of the Delete error.
StopRemove(p) ==
    /\ Running /\ pc[p] = "stopRemove"
    /\ Lock /\ mu' = Unlock(p, "RemoveInstance")
    /\ chaincodes' = RemoveInstanceMap(CurItem(p))
    /\ cc' = [cc EXCEPT ![p] = Nil]
    /\ closed' = Collect(closed, chaincodes', cc')
    /\ NextItem(p)
    /\ UNCHANGED <<fnVars, stopped, load, pods, configmaps, panicked, op>>

\* deleteChainCodeFilesConfigMap(GetPodName(ccid)); its error is what
\* stopAllInternal returns.
StopDelCM(p) ==
    /\ Running /\ pc[p] = "stopDelCM"
    /\ \E e \in (IF PodName(op[p].ccid) \in configmaps
                 THEN {"nil", "CMDeleteErr"} ELSE {"CMNotFound"}) :
          /\ configmaps' = IF e = "nil"
                           THEN configmaps \ {PodName(op[p].ccid)}
                           ELSE configmaps
          /\ StopAllReturns(p, op[p].kind, e, Append(issued[p], "cmdelete"), idx[p])
    /\ UNCHANGED <<fnVars, mu, stopped, load, pods, chaincodes, closed, panicked, op, err, cc>>

\* createChainCodeFilesConfigMap: the List for an existing config map of this
\* name (its error is dropped, leaving no items), choosing Update or Create.
CMList(p) ==
    /\ Running /\ pc[p] = "cmList"
    /\ issued' = Log(p, "cmlist")
    /\ \E found \in (IF PodName(op[p].ccid) \in configmaps
                     THEN {TRUE, FALSE} ELSE {FALSE}) :
          pc' = [pc EXCEPT ![p] = IF found THEN "cmUpdate" ELSE "cmCreate"]
    /\ UNCHANGED <<fnVars, mu, stopped, sharedVars, op, items, idx, err, cc, ret>>

\* A failed config-map write makes createChaincodePodDeployment, and Start,
\* return the error.
CMWritten(p, e) ==
    /\ pc' = [pc EXCEPT ![p] = IF e = "nil" THEN "podCreate" ELSE "ret"]
    /\ ret' = [ret EXCEPT ![p] = IF e = "nil" THEN NoRet ELSE Ret(e)]

\* ConfigMaps.Update of the existing config map.
CMUpdate(p) ==
    /\ Running /\ pc[p] = "cmUpdate"
    /\ issued' = Log(p, "cmupdate")
    /\ \E e \in (IF PodName(op[p].ccid) \in configmaps
                 THEN {"nil", "CMWriteErr"} ELSE {"CMGone"}) :
          CMWritten(p, e)
    /\ UNCHANGED <<fnVars, mu, stopped, sharedVars, op, items, idx, err, cc>>

\* ConfigMaps.Create of a new config map.
CMCreate(p) ==
    /\ Running /\ pc[p] = "cmCreate"
    /\ issued' = Log(p, "cmcreate")
    /\ \E e \in (IF PodName(op[p].ccid) \in configmaps
                 THEN {"CMExists"} ELSE {"nil", "CMWriteErr"}) :
          /\ configmaps' = IF e = "nil"
                           THEN configmaps \cup {PodName(op[p].ccid)}
                           ELSE configmaps
          /\ CMWritten(p, e)
    /\ UNCHANGED <<fnVars, mu, stopped, load, pods, chaincodes, closed, panicked,
                   op, items, idx, err, cc>>

\* A pod named after the calling goroutine as well.
NewPod_PerCaller(p) ==
    [PodFor(op[p].ccid) EXCEPT !.name = @ \o <<"-", ToString(p)>>]

\* The pod Start asks the orchestrator to create.
NewPod(p) == PodFor(op[p].ccid)

\* A Start that cleans the bundle up after the create.
AfterCreate_Teardown(e) == IF e = "nil" THEN "stopDelCM" ELSE "ret"

\* Where Start goes when Pods.Create returns e: on to the registration of the
\* exit channel, or out with the error.
AfterCreate(e) == IF e = "nil" THEN "setInstance" ELSE "ret"

\* The rest of createChaincodePodDeployment: getResourceRequest, whose error
\* is returned before anything is submitted, then Pods.Create, which the
\* orchestrator refuses for a name that is taken.
PodCreate(p) ==
    /\ Running /\ pc[p] = "podCreate"
    /\ \E re \in ResourceErrs :
          IF re # "nil"
          THEN /\ pc' = [pc EXCEPT ![p] = "ret"]
               /\ ret' = [ret EXCEPT ![p] = Ret(re)]
               /\ UNCHANGED <<pods, issued>>
          ELSE /\ issued' = Log(p, "create")
               /\ \E e \in (IF \E q \in pods : q.name = NewPod(p).name
                            THEN {"AlreadyExists"} ELSE {"nil", "CreateErr"}) :
                     /\ pods' = IF e = "nil" THEN pods \cup {NewPod(p)} ELSE pods
                     /\ pc' = [pc EXCEPT ![p] = AfterCreate(e)]
                     /\ ret' = [ret EXCEPT ![p] =
                                    IF e = "nil" THEN NoRet ELSE Ret(e)]
    /\ UNCHANGED <<fnVars, mu, stopped, load, configmaps, chaincodes, closed, panicked,
                   op, items, idx, err, cc>>

\* A registration that keeps the handle the registry already has.
SetInstance_KeepExisting(p) ==
    /\ Running /\ pc[p] = "setInstance"
    /\ Lock /\ mu' = Unlock(p, "SetInstance")
    /\ LET ch == NewChan(chaincodes, cc)
       IN  /\ chaincodes' = IF GetInstance(PodName(op[p].ccid)) = Nil
                             THEN SetInstanceMap(PodName(op[p].ccid), ch)
                             ELSE chaincodes
           /\ closed' = Collect(closed, chaincodes', cc)
    /\ pc' = [pc EXCEPT ![p] = "ret"]
    /\ ret' = [ret EXCEPT ![p] = Ret("nil")]
    /\ UNCHANGED <<fnVars, stopped, load, pods, configmaps, panicked, op, items, idx, err, cc, issued>>

\* ccchan := make(chan string, 1); SetInstance(GetPodName(ccid), &ccchan).
SetInstance(p) ==
    /\ Running /\ pc[p] = "setInstance"
    /\ Lock /\ mu' = Unlock(p, "SetInstance")
    /\ LET ch == NewChan(chaincodes, cc)
       IN  /\ chaincodes' = SetInstanceMap(PodName(op[p].ccid), ch)
           /\ closed' = Collect([closed EXCEPT ![ch] = FALSE], chaincodes', cc)
    /\ pc' = [pc EXCEPT ![p] = "ret"]
    /\ ret' = [ret EXCEPT ![p] = Ret("nil")]
    /\ UNCHANGED <<fnVars, stopped, load, pods, configmaps, panicked, op, items, idx, err, cc, issued>>

\* <-*cc: nothing is ever sent, so the receive completes when the channel is
\* closed.
WaitRecv(p) ==
    /\ Running /\ pc[p] = "waitRecv"
    /\ closed[cc[p]]
    /\ pc' = [pc EXCEPT ![p] = "ret"]
    /\ ret' = [ret EXCEPT ![p] = WaitExited]
    /\ cc' = [cc EXCEPT ![p] = Nil]
    /\ closed' = Collect(closed, chaincodes, cc')
    /\ UNCHANGED <<fnVars, mu, stopped, load, pods, configmaps, chaincodes, panicked,
                   op, items, idx, err, issued>>

\* The call is over: the caller's frame is gone.
Return(p) ==
    /\ ~panicked /\ pc[p] = "ret"
    /\ pc' = [pc EXCEPT ![p] = "idle"]
    /\ op' = [op EXCEPT ![p] = NoOp]
    /\ items' = [items EXCEPT ![p] = <<>>]
    /\ idx' = [idx EXCEPT ![p] = 0]
    /\ err' = [err EXCEPT ![p] = "nil"]
    /\ issued' = [issued EXCEPT ![p] = <<>>]
    /\ ret' = [ret EXCEPT ![p] = NoRet]
    /\ stopped' = [stopped EXCEPT ![p] = /\ op[p].kind = "Stop"
                                         /\ ~op[p].dontremove
                                         /\ ret[p].err = "nil"]
    /\ UNCHANGED <<fnVars, mu, sharedVars, cc>>

\* A controller that watches its pods and closes the handle of one that goes
\* away.
ExternalTerminate_Signals(pod) ==
    /\ Running /\ pod \in pods
    /\ pods' = pods \ {pod}
    /\ closed' = IF GetInstance(pod.name) = Nil THEN closed
                 ELSE [closed EXCEPT ![GetInstance(pod.name)] = TRUE]
    /\ UNCHANGED <<fnVars, mu, stopped, load, configmaps, chaincodes, panicked,
                   pc, op, items, idx, err, cc, issued, ret>>

\* A pod goes away without the controller: it is deleted by someone else,
\* evicted, or its node is lost.
ExternalTerminate(pod) ==
    /\ Running /\ pod \in pods
    /\ pods' = pods \ {pod}
    /\ UNCHANGED <<fnVars, mu, stopped, load, configmaps, chaincodes, closed, panicked,
                   pc, op, items, idx, err, cc, issued, ret>>

Next ==
    \/ \E p \in Procs, c \in CCIDs : Start(p, c)
    \/ \E p \in Procs, c \in CCIDs, dk \in BOOLEAN, dr \in BOOLEAN :
           Stop(p, c, dk, dr)
    \/ \E p \in Procs, c \in CCIDs : Wait(p, c)
    \/ \E p \in Procs : HealthCheck(p)
    \/ \E p \in Procs : StopDelete(p)
    \/ \E p \in Procs : StopGet(p)
    \/ \E p \in Procs : StopClose(p)
    \/ \E p \in Procs : StopRemove(p)
    \/ \E p \in Procs : StopDelCM(p)
    \/ \E p \in Procs : CMList(p)
    \/ \E p \in Procs : CMUpdate(p)
    \/ \E p \in Procs : CMCreate(p)
    \/ \E p \in Procs : PodCreate(p)
    \/ \E p \in Procs : SetInstance(p)
    \/ \E p \in Procs : WaitRecv(p)
    \/ \E p \in Procs : Return(p)
    \/ \E pod \in pods : ExternalTerminate(pod)

Spec == Init /\ [][Next]_vars

\* -------------------------------------------------------- name derivation

\* The controller at rest, while a pure function of it is exercised.
CtlAtRest ==
    /\ load = [callers |-> {}, waiters |-> {}, foreign |-> FALSE]
    /\ pods = {} /\ configmaps = {} /\ chaincodes = <<>>
    /\ closed = [c \in ChanIds |-> FALSE]
    /\ panicked = FALSE
    /\ pc = [p \in Procs |-> "idle"]
    /\ op = [p \in Procs |-> NoOp]
    /\ items = [p \in Procs |-> <<>>]
    /\ idx = [p \in Procs |-> 0]
    /\ err = [p \in Procs |-> "nil"]
    /\ cc = [p \in Procs |-> Nil]
    /\ issued = [p \in Procs |-> <<>>]
    /\ ret = [p \in Procs |-> NoRet]
    /\ mu = Nil
    /\ stopped = [p \in Procs |-> FALSE]

\* Longest chaincode name GetPodName is applied to.
MaxNameLen == 2

\* The characters of the peer ids and chaincode names: a letter, the
\* separator of the format, and a character podRegExp matches.
NameChars == {"a", "-", " "}

StringsUpTo(n) == UNION {[1..k -> NameChars] : k \in 0..n}

\* The (api.PeerID, ccid) pairs GetPodName is applied to.
DnInputs ==
    [peerID : StringsUpTo(1),
     ccid : [Name : StringsUpTo(MaxNameLen) \ {<<>>}, Version : {<<"1">>, <<"2">>}]]

NotDerived == [done |-> FALSE, name |-> <<>>]

InitName ==
    /\ CtlAtRest
    /\ dnIn \in [1..2 -> DnInputs]
    /\ dnOut = [i \in 1..2 |-> NotDerived]
    /\ EcrAtRest /\ ResAtRest /\ SplitAtRest /\ KsAtRest

\* One call of GetPodName, on the i-th input.
GetPodNameCall(i) ==
    /\ ~dnOut[i].done
    /\ dnOut' = [dnOut EXCEPT ![i] =
                    [done |-> TRUE,
                     name |-> GetPodName(dnIn[i].peerID, dnIn[i].ccid)]]
    /\ UNCHANGED <<ctlVars, resVars, splitVars, ksVars, dnIn, files, run>>

NextName == \E i \in 1..2 : GetPodNameCall(i)

SpecName == InitName /\ [][NextName]_vars

\* ------------------------------------------------------------ ExitHandles

\* The names and the channel pointers the methods of ExitHandles are called
\* with, by the calling goroutines directly.
RegNames == AllPodNames

RegChans == 1..2

RegMethods == {"SetInstance", "GetInstance", "RemoveInstance"}

InitRegistry ==
    /\ CtlAtRest
    /\ NameAtRest /\ EcrAtRest /\ ResAtRest /\ SplitAtRest /\ KsAtRest

\* A goroutine calls a method of ExitHandles.
RegCall(p, method, name, inst) ==
    /\ pc[p] = "idle"
    /\ pc' = [pc EXCEPT ![p] = "lock"]
    /\ op' = [op EXCEPT ![p] = [kind |-> method, name |-> name, inst |-> inst]]
    /\ UNCHANGED <<fnVars, load, pods, configmaps, chaincodes, closed, panicked,
                   items, idx, err, cc, issued, ret, mu, stopped>>

\* handles.mutex.Lock().
RegLock(p) ==
    /\ pc[p] = "lock" /\ Lock
    /\ mu' = p
    /\ pc' = [pc EXCEPT ![p] = "locked"]
    /\ UNCHANGED <<fnVars, load, pods, configmaps, chaincodes, closed, panicked,
                   op, items, idx, err, cc, issued, ret, stopped>>

\* The body of the method: the map read, write or delete.
RegBody(p) ==
    /\ pc[p] = "locked"
    /\ chaincodes' = CASE op[p].kind = "SetInstance" ->
                             SetInstanceMap(op[p].name, op[p].inst)
                        [] op[p].kind = "RemoveInstance" ->
                             RemoveInstanceMap(op[p].name)
                        [] OTHER -> chaincodes
    /\ cc' = [cc EXCEPT ![p] = IF op[p].kind = "GetInstance"
                               THEN GetInstance(op[p].name) ELSE Nil]
    /\ pc' = [pc EXCEPT ![p] = "unlock"]
    /\ UNCHANGED <<fnVars, load, pods, configmaps, closed, panicked,
                   op, items, idx, err, issued, ret, mu, stopped>>

\* The deferred handles.mutex.Unlock(), and the return.
RegUnlock(p) ==
    /\ pc[p] = "unlock"
    /\ mu' = Unlock(p, op[p].kind)
    /\ pc' = [pc EXCEPT ![p] = "idle"]
    /\ op' = [op EXCEPT ![p] = NoOp]
    /\ cc' = [cc EXCEPT ![p] = Nil]
    /\ UNCHANGED <<fnVars, load, pods, configmaps, chaincodes, closed, panicked,
                   items, idx, err, issued, ret, stopped>>

NextRegistry ==
    \/ \E p \in Callers, method \in RegMethods, name \in RegNames, inst \in RegChans :
           RegCall(p, method, name, inst)
    \/ \E p \in Callers : RegLock(p)
    \/ \E p \in Callers : RegBody(p)
    \/ \E p \in Callers : RegUnlock(p)

SpecRegistry == InitRegistry /\ [][NextRegistry]_vars

\* ----------------------------------------------------- getResourceRequest

NotBuilt == [done |-> FALSE, err |-> "nil", res |-> [Limits |-> <<>>, Requests |-> <<>>]]

InitResource ==
    /\ CtlAtRest
    /\ NameAtRest /\ EcrAtRest /\ SplitAtRest /\ KsAtRest
    /\ rrCfg \in Configs
    /\ rrOut = NotBuilt

\* One call of getResourceRequest under the configuration in effect.
GetResourceRequestCall ==
    /\ ~rrOut.done
    /\ rrOut' = [done |-> TRUE,
                 err |-> getResourceRequest(rrCfg).err,
                 res |-> getResourceRequest(rrCfg).res]
    /\ UNCHANGED <<ctlVars, nameVars, ecrVars, splitVars, ksVars, rrCfg>>

NextResource == GetResourceRequestCall

SpecResource == InitResource /\ [][NextResource]_vars

\* ------------------------------------------------- environment variables

\* Most entries in env, and the longest entry.
MaxEnv == 2

MaxEntryLen == 4

\* The entries: strings of a letter and "=", the empty string included.
EnvEntries == UNION {[1..n -> {"k", "="}] : n \in 0..MaxEntryLen}

EnvLists == UNION {[1..n -> EnvEntries] : n \in 0..MaxEnv}

\* The 1-based place of the first "=" of v, 0 without one.
FirstEq(v) ==
    LET at == {i \in 1..Len(v) : v[i] = "="}
    IN  IF at = {} THEN 0 ELSE CHOOSE i \in at : \A j \in at : i <= j

\* A split at every "=", of which the first two parts are kept.
SplitN_Every(v) ==
    IF FirstEq(v) = 0 THEN <<v>>
    ELSE LET rest == SubSeq(v, FirstEq(v) + 1, Len(v))
         IN  <<SubSeq(v, 1, FirstEq(v) - 1),
               IF FirstEq(rest) = 0 THEN rest ELSE SubSeq(rest, 1, FirstEq(rest) - 1)>>

\* strings.SplitN(v, "=", 2): v alone without a "=", else the text before
\* the first "=" and the text after it.
SplitN(v) ==
    IF FirstEq(v) = 0 THEN <<v>>
    ELSE <<SubSeq(v, 1, FirstEq(v) - 1), SubSeq(v, FirstEq(v) + 1, Len(v))>>

\* The loop over env: each entry gives EnvVar{Name: ss[0], Value: ss[1]};
\* ss[1] of a one-element ss is an index out of range, a panic.
RECURSIVE BuildEnvVars(_, _)
BuildEnvVars(vs, acc) ==
    IF vs = <<>> THEN [panic |-> FALSE, vars |-> acc]
    ELSE LET ss == SplitN(Head(vs))
         IN  IF Len(ss) < 2 THEN [panic |-> TRUE, vars |-> <<>>]
             ELSE BuildEnvVars(Tail(vs), Append(acc, [Name |-> ss[1], Value |-> ss[2]]))

NotSplit == [done |-> FALSE, panic |-> FALSE, vars |-> <<>>]

InitEnv ==
    /\ CtlAtRest
    /\ NameAtRest /\ EcrAtRest /\ ResAtRest /\ KsAtRest
    /\ env \in EnvLists
    /\ envvars = NotSplit

\* The env loop of one createChaincodePodDeployment.
BuildEnvVarsCall ==
    /\ ~envvars.done
    /\ envvars' = [done |-> TRUE,
                   panic |-> BuildEnvVars(env, <<>>).panic,
                   vars |-> BuildEnvVars(env, <<>>).vars]
    /\ UNCHANGED <<ctlVars, nameVars, ecrVars, resVars, ksVars, env>>

NextEnv == BuildEnvVarsCall

SpecEnv == InitEnv /\ [][NextEnv]_vars

\* ------------------------------------------------------ extractCommonRoot

\* Most files in a filesToUpload map.
MaxFiles == 2

\* Most iterations of the root search that are followed.
MaxIters == 3

\* The paths of the files: bare names, names under "/", under a relative
\* directory, and under nested directories.
Paths ==
    {<<"x">>, <<"y">>,
     <<"/", "x">>, <<"/", "y">>,
     <<"a", "/", "x">>, <<"a", "/", "y">>, <<"b", "/", "y">>,
     <<"/", "r", "/", "s", "/", "1">>, <<"/", "r", "/", "s", "/", "2">>,
     <<"/", "r", "/", "t">>}

Payloads == {"A", "B"}

\* The maps extractCommonRoot is applied to, the empty one included.
Bundles ==
    UNION {[S -> Payloads] : S \in {T \in SUBSET Paths : Cardinality(T) <= MaxFiles}}

\* strings.LastIndex(s, "/"): the 0-based index of the last "/", -1 without one.
LastIndex(s) ==
    LET at == {i \in 1..Len(s) : s[i] = "/"}
    IN  IF at = {} THEN -1 ELSE (CHOOSE i \in at : \A j \in at : j <= i) - 1

\* strings.HasPrefix(k, prefix).
HasPrefix(k, prefix) ==
    Len(prefix) <= Len(k) /\ SubSeq(k, 1, Len(prefix)) = prefix

\* strings.Replace(k, old, "", 1): k without the first occurrence of old; an
\* empty old leaves k as it is.
Replace(k, old) ==
    LET at == {i \in 1..(Len(k) - Len(old) + 1) :
                  SubSeq(k, i, i + Len(old) - 1) = old}
    IN  IF old = <<>> \/ at = {} THEN k
        ELSE LET i == CHOOSE i \in at : \A j \in at : i <= j
             IN  SubSeq(k, 1, i - 1) \o SubSeq(k, i + Len(old), Len(k))

\* A run of extractCommonRoot that has not begun.
NotBegun ==
    [pc |-> "begin", rootPath |-> <<>>, foundRoot |-> FALSE, iters |-> 0,
     binaryData |-> [k \in {} |-> "A"]]

InitPackage ==
    /\ CtlAtRest
    /\ NameAtRest /\ ResAtRest /\ SplitAtRest /\ KsAtRest
    /\ files \in Bundles
    /\ run = [r \in 1..2 |-> NotBegun]

\* An empty map that is mounted at "/".
EcrEmpty_Slash(r) ==
    /\ run[r].pc = "begin" /\ DOMAIN files = {}
    /\ run' = [run EXCEPT ![r].pc = "done", ![r].rootPath = <<"/">>]
    /\ UNCHANGED <<ctlVars, resVars, splitVars, ksVars, dnIn, dnOut, files>>

\* len(filesToUpload) < 1: return "", nil.
EcrEmpty(r) ==
    /\ run[r].pc = "begin" /\ DOMAIN files = {}
    /\ run' = [run EXCEPT ![r].pc = "done"]
    /\ UNCHANGED <<ctlVars, resVars, splitVars, ksVars, dnIn, dnOut, files>>

\* rootPath := MapKeys()[0], any key of the map; foundRoot, and the empty
\* root when the key has no "/".
EcrBegin(r) ==
    /\ run[r].pc = "begin"
    /\ \E k \in DOMAIN files :
          run' = [run EXCEPT ![r].pc = "loop",
                             ![r].foundRoot = LastIndex(k) < 0,
                             ![r].rootPath = IF LastIndex(k) < 0 THEN <<>> ELSE k]
    /\ UNCHANGED <<ctlVars, resVars, splitVars, ksVars, dnIn, dnOut, files>>

\* The candidate of the next iteration: rootPath[0 : LastIndex(rootPath, "/")+1].
Trim(rootPath) == SubSeq(rootPath, 1, LastIndex(rootPath) + 1)

\* One iteration of the loop: trim the candidate, test it against every key.
EcrIterate(r) ==
    /\ run[r].pc = "loop" /\ run[r].iters < MaxIters
    /\ ~run[r].foundRoot /\ LastIndex(run[r].rootPath) > 0
    /\ LET root == Trim(run[r].rootPath)
       IN  run' = [run EXCEPT ![r].rootPath = root,
                              ![r].foundRoot = \A k \in DOMAIN files : HasPrefix(k, root),
                              ![r].iters = @ + 1]
    /\ UNCHANGED <<ctlVars, resVars, splitVars, ksVars, dnIn, dnOut, files>>

\* The loop condition fails: on to the new map.
EcrExitLoop(r) ==
    /\ run[r].pc = "loop"
    /\ ~(~run[r].foundRoot /\ LastIndex(run[r].rootPath) > 0)
    /\ run' = [run EXCEPT ![r].pc = "strip"]
    /\ UNCHANGED <<ctlVars, resVars, splitVars, ksVars, dnIn, dnOut, files>>

\* binaryData[strings.Replace(k, rootPath, "", 1)] = v for every file; of two
\* files that get the same key, the one the iteration takes last stays.
EcrStrip(r) ==
    /\ run[r].pc = "strip"
    /\ LET keys == {Replace(k, run[r].rootPath) : k \in DOMAIN files}
       IN  \E bd \in [keys -> Payloads] :
              /\ \A nk \in keys :
                    \E k \in DOMAIN files :
                       Replace(k, run[r].rootPath) = nk /\ files[k] = bd[nk]
              /\ run' = [run EXCEPT ![r].pc = "done", ![r].binaryData = bd]
    /\ UNCHANGED <<ctlVars, resVars, splitVars, ksVars, dnIn, dnOut, files>>

NextPackage ==
    \/ \E r \in 1..2 : EcrEmpty(r)
    \/ \E r \in 1..2 : EcrBegin(r)
    \/ \E r \in 1..2 : EcrIterate(r)
    \/ \E r \in 1..2 : EcrExitLoop(r)
    \/ \E r \in 1..2 : EcrStrip(r)

SpecPackage == InitPackage /\ [][NextPackage]_vars

\* ---------------------------------------------------------- VaultKeyStore

\* The SKIs of the keys the store is called with: of no byte, of two, and two
\* of three bytes.
SKIs == {<<>>, <<1, 2>>, <<1, 2, 3>>, <<1, 2, 171>>}

\* The dynamic types of the keys: the two of a key pair, which have one SKI,
\* and *VaultKey, the type GetKey returns, which serialize does not know.
KeyTypes == {"ecdsaPrivateKey", "ecdsaPublicKey", "VaultKey"}

\* The nil bccsp.Key.
NilKey == [type |-> "nil", ski |-> <<>>]

\* A key is known by its type and its material; the SKI, a hash of the
\* material, stands for the material.
Keys == [type : KeyTypes, ski : SKIs]

HexDigits == <<"0", "1", "2", "3", "4", "5", "6", "7",
               "8", "9", "a", "b", "c", "d", "e", "f">>

\* hex.EncodeToString: two digits for each byte.
EncodeToString(b) ==
    [i \in 1..(2 * Len(b)) |->
        IF i % 2 = 1 THEN HexDigits[(b[(i + 1) \div 2] \div 16) + 1]
                     ELSE HexDigits[(b[i \div 2] % 16) + 1]]

HexValue(c) == CHOOSE n \in 0..15 : HexDigits[n + 1] = c

\* hex.DecodeString: an error for a string of odd length or with a character
\* that is no digit.
DecodeString(h) ==
    IF Len(h) % 2 = 1 \/ \E i \in 1..Len(h) : h[i] \notin Range(HexDigits)
    THEN [err |-> "hex", bytes |-> <<>>]
    ELSE [err |-> "nil",
          bytes |-> [i \in 1..(Len(h) \div 2) |->
                        16 * HexValue(h[2 * i - 1]) + HexValue(h[2 * i])]]

\* VaultKey.serialize: the source type and the PEM of the material, for the
\* types of the switch.
serialize(k) ==
    IF k.type \in {"ecdsaPrivateKey", "ecdsaPublicKey"}
    THEN [err |-> "nil", sourceType |-> k.type, pem |-> k.ski]
    ELSE [err |-> "Key type not reconigned", sourceType |-> "", pem |-> <<>>]

\* VaultKey.deserialize: the key of the source type and of the material.
deserialize(sourceType, raw) ==
    IF sourceType \in {"ecdsaPrivateKey", "ecdsaPublicKey"}
    THEN [err |-> "nil", key |-> [type |-> sourceType, ski |-> raw]]
    ELSE [err |-> "Key type not reconigned", key |-> NilKey]

\* VaultKey.GetSecretJSON: Options.Cas is 0 whatever the version.
GetSecretJSON(k, version) ==
    LET ser == serialize(k)
    IN  [err |-> ser.err,
         map |-> [options |-> [cas |-> 0],
                  data |-> [pem |-> EncodeToString(ser.pem),
                            type |-> ser.sourceType,
                            ski |-> EncodeToString(k.ski)]]]

\* KeyFromSecret, on the data of a secret read: the key whose SKI() is that
\* of the material decoded.
KeyFromSecret(data) ==
    LET ski == DecodeString(data.data.ski)
        pem == DecodeString(data.data.pem)
    IN  IF ski.err # "nil" THEN [err |-> ski.err, key |-> NilKey]
        ELSE IF pem.err # "nil" THEN [err |-> pem.err, key |-> NilKey]
        ELSE deserialize(data.data.type, pem.bytes)

\* The nil *api.Secret.
NilSecret == [data |-> <<>>]

\* VaultKeyStore.keyPath.
keyPath(key) ==
    IF ksVersion = 2 THEN <<"secret/", "data/">> \o key ELSE <<"secret/">> \o key

\* api.Read on a path, when the request goes through: nil for a path without
\* a secret; the data written for version 1, and the data with its metadata
\* for version 2.
VaultRead(path) ==
    IF path \notin DOMAIN secrets THEN NilSecret
    ELSE IF ksVersion = 2 THEN [data |-> secrets[path], metadata |-> [version |-> 1]]
    ELSE secrets[path]

\* api.Write on a path, when the request goes through: version 2 with cas 0
\* writes only a path that has no secret, version 1 replaces.
VaultWrite(path, map) ==
    IF ksVersion = 2 /\ map.options.cas = 0 /\ path \in DOMAIN secrets
    THEN [err |-> "check-and-set", store |-> secrets]
    ELSE [err |-> "nil",
          store |-> [q \in DOMAIN secrets \cup {path} |->
                       IF q = path THEN IF ksVersion = 2 THEN map.data ELSE map
                       ELSE secrets[q]]]

NoCall == [call |-> "none", k |-> NilKey, ski |-> <<>>, err |-> "nil", key |-> NilKey]

InitVault ==
    /\ CtlAtRest
    /\ NameAtRest /\ EcrAtRest /\ ResAtRest /\ SplitAtRest
    /\ readOnly \in BOOLEAN
    /\ ksVersion \in {1, 2}
    /\ secrets = <<>>
    /\ ksRet = NoCall

\* What StoreKey(k) returns and leaves in the vault, for the outcomes of its
\* two requests. The error of the read is dropped: a read that failed is a
\* read that found nothing.
StoreKeyResult(k, readOk, writeOk) ==
    LET path == keyPath(EncodeToString(k.ski))
        existing == IF readOk THEN VaultRead(path) ELSE NilSecret
        json == GetSecretJSON(k, ksVersion)
    IN  IF readOnly THEN [err |-> "read only KeyStore", store |-> secrets]
        ELSE IF k = NilKey THEN [err |-> "key to store can not be nil", store |-> secrets]
        ELSE IF Len(k.ski) = 0 THEN [err |-> "invalid SKI; zero length", store |-> secrets]
        ELSE IF Len(k.ski) < 3 THEN [err |-> "invalid SKI; at least 3", store |-> secrets]
        ELSE IF existing # NilSecret THEN [err |-> "already exists", store |-> secrets]
        ELSE IF json.err # "nil" THEN [err |-> json.err, store |-> secrets]
        ELSE IF ~writeOk THEN [err |-> "write", store |-> secrets]
        ELSE VaultWrite(path, json.map)

\* VaultKeyStore.StoreKey.
StoreKey(k, readOk, writeOk) ==
    LET r == StoreKeyResult(k, readOk, writeOk)
    IN  /\ secrets' = r.store
        /\ ksRet' = [call |-> "StoreKey", k |-> k, ski |-> k.ski,
                     err |-> r.err, key |-> NilKey]
        /\ UNCHANGED <<ctlVars, nameVars, ecrVars, resVars, splitVars,
                       readOnly, ksVersion>>

\* What GetKey(ski) returns.
GetKeyResult(ski, readOk) ==
    LET secret == VaultRead(keyPath(EncodeToString(ski)))
    IN  IF Len(ski) < 3 THEN [err |-> "invalid SKI; at least 3", key |-> NilKey]
        ELSE IF ~readOk THEN [err |-> "read", key |-> NilKey]
        ELSE IF secret = NilSecret THEN [err |-> "no key found", key |-> NilKey]
        ELSE KeyFromSecret(secret)

\* VaultKeyStore.GetKey.
GetKey(ski, readOk) ==
    LET r == GetKeyResult(ski, readOk)
    IN  /\ ksRet' = [call |-> "GetKey", k |-> NilKey, ski |-> ski,
                     err |-> r.err, key |-> r.key]
        /\ UNCHANGED <<ctlVars, nameVars, ecrVars, resVars, splitVars,
                       readOnly, ksVersion, secrets>>

NextVault ==
    \/ \E k \in Keys \cup {NilKey}, readOk \in BOOLEAN, writeOk \in BOOLEAN :
           StoreKey(k, readOk, writeOk)
    \/ \E ski \in SKIs, readOk \in BOOLEAN : GetKey(ski, readOk)

SpecVault == InitVault /\ [][NextVault]_vars

\* ----------------------------------------------------------------- claims

\* The registry key of the call caller p is in.
Name(p) == PodName(op[p].ccid)

\* Caller p has just been handed the result of a call of the given kind.
Returned(p, kind) == pc[p] = "ret" /\ op[p].kind = kind

\* Caller p has just been handed the result of a Stop that ran stopAllInternal.
StopReturned(p) == Returned(p, "Stop") /\ ~op[p].dontremove

\* Waiter w is blocked in the receive of a Wait on chaincode c.
Blocked(w, c) == pc[w] = "waitRecv" /\ op[w].ccid = c /\ ~closed[cc[w]]

\* One caller issues Start and Stop one after another (no call overlaps
\* another Start or Stop).
Sequential == Cardinality(load.callers) = 1

\* C1: whenever a Stop has returned without error, the registry holds no
\* entry for the name (a following Wait fails with NotFound) and the query
\* for the running instances of the descriptor is empty.  Stated for the
\* Stop calls that ran the teardown (dontremove unset), issued by a single
\* caller whose calls do not overlap.
C1_StopLeavesAbsent ==
    \A p \in Procs :
        (Sequential /\ StopReturned(p) /\ ret[p].err = "nil")
            => /\ GetInstance(Name(p)) = Nil
               /\ FindPeerCCPods(op[p].ccid) = {}

\* C2: broadcast-once: when a Stop for a name has completed, no Wait that was
\* blocked on the name's handle when the Stop was called is still blocked.
\* Stated for a Stop that returned success, issued by a single caller.
C2_StopReleasesWaiters ==
    \A p \in Procs :
        (Sequential /\ StopReturned(p) /\ ret[p].err = "nil")
            => \A w \in op[p].waiting : ~Blocked(w, op[p].ccid)

\* C3: under every interleaving of Stop and Start calls no wait handle is
\* closed twice (a second close of a channel is the panic of the Go runtime).
C3_NoDoubleClose == ~panicked

\* C10: an instance with a registered handle that was removed out-of-band is
\* discovered by the next Stop: when a Stop whose query answered without the
\* controller's instance returns, the registry holds no handle for the name
\* and no Wait is still blocked on it.
C10_StopDiscoversExternalExit ==
    \A p \in Procs :
        (/\ Sequential /\ StopReturned(p)
         /\ issued[p] # <<"list">>
         /\ \A i \in 1..Len(items[p]) : items[p][i] # Name(p))
            => /\ GetInstance(Name(p)) = Nil
               /\ \A w \in op[p].waiting : ~Blocked(w, op[p].ccid)

\* C4: a Wait on a name the registry has no handle for returns at once, with
\* the error NotFound and exit code 0, without blocking and without touching
\* the registry or any channel.
C4_WaitNotFound ==
    [][\A p \in Procs :
          (/\ pc[p] = "idle"
           /\ op'[p].kind = "Wait"
           /\ GetInstance(PodName(op'[p].ccid)) = Nil)
              => /\ pc'[p] = "ret"
                 /\ ret'[p] = [err |-> "NotFound", code |-> 0]
                 /\ cc'[p] = Nil
                 /\ chaincodes' = chaincodes
                 /\ closed' = closed]_vars

C4_Witness ==
    \E p \in Procs : Returned(p, "Wait") /\ ret[p].err = "NotFound"

\* The controller's own pods of chaincode c (selected by label; the pods other
\* parties created under the same labels are not the controller's instances).
OwnPods(c) == {pod \in pods : pod.labels = PodLabels(c) /\ pod \notin ForeignPods}

\* C5: at most one instance the controller created is live per name, also
\* after a Start has replaced an earlier instance.
C5_AtMostOneInstance == \A c \in CCIDs : Cardinality(OwnPods(c)) <= 1

\* A Start has returned success while a waiter still holds the handle of the
\* instance it replaced.
C5_Witness ==
    \E p \in Procs :
        /\ Returned(p, "Start") /\ ret[p].err = "nil"
        /\ OwnPods(op[p].ccid) # {}
        /\ \E w \in Procs : /\ pc[w] = "waitRecv"
                             /\ cc[w] # Nil
                             /\ cc[w] # GetInstance(Name(p))

TeardownPcs == {"stopDelete", "stopGet", "stopClose", "stopRemove", "stopDelCM"}

\* C6: within one Start the teardown of the name comes before the create
\* request: no teardown step runs once the create has been issued, and the
\* create is issued once at most.
C6_TeardownBeforeCreate ==
    \A p \in Procs :
        op[p].kind = "Start" =>
            /\ pc[p] \in TeardownPcs => "create" \notin Range(issued[p])
            /\ "create" \in Range(issued[p])
                  => /\ pc[p] \in {"setInstance", "ret"}
                     /\ issued[p][Len(issued[p])] = "create"
                     /\ Cardinality({i \in 1..Len(issued[p]) :
                                        issued[p][i] = "create"}) = 1

C6_Witness ==
    \E p \in Procs : /\ op[p].kind = "Start"
                      /\ pc[p] = "setInstance"
                      /\ "create" \in Range(issued[p])

TeardownErrs == {"ListErr", "DeleteErr", "PodNotFound", "CMDeleteErr", "CMNotFound"}

\* C7: a failure of the teardown never aborts a Start: no Start returns an
\* error of the teardown, and every Start that returns has gone on to the
\* provisioning (its first request after the teardown is the look-up of the
\* bundle).
C7_TeardownFailureIgnored ==
    \A p \in Procs :
        Returned(p, "Start") => /\ ret[p].err \notin TeardownErrs
                                /\ issued[p] # <<>>
                                /\ issued[p][1] = "cmlist"

\* A Start has returned success although its teardown left a matching pod
\* behind.
C7_Witness ==
    \E p \in Procs :
        /\ Returned(p, "Start") /\ ret[p].err = "nil"
        /\ \E pod \in pods : pod \in ForeignPods /\ pod.labels = PodLabels(op[p].ccid)

CreateErrs == {"ConfigErr", "AlreadyExists", "CreateErr"}

\* C8: when the create fails, Start returns that error at once, registers no
\* handle and does not retry; when it succeeds, the pod is live and Start
\* registers a fresh open handle under the name, replacing whatever was
\* there, and returns success.
C8_CreateOutcome ==
    [][\A p \in Procs :
          /\ (pc[p] = "podCreate" /\ pc'[p] # "podCreate")
                => IF pc'[p] = "ret"
                   THEN /\ ret'[p].err \in CreateErrs
                        /\ pods' = pods
                        /\ chaincodes' = chaincodes
                        /\ Cardinality({i \in 1..Len(issued'[p]) :
                                           issued'[p][i] = "create"}) <= 1
                   ELSE /\ pc'[p] = "setInstance"
                        /\ NewPod(p) \notin pods
                        /\ pods' = pods \cup {NewPod(p)}
                        /\ chaincodes' = chaincodes
          /\ (pc[p] = "setInstance" /\ pc'[p] # "setInstance")
                => /\ pc'[p] = "ret"
                   /\ ret'[p] = [err |-> "nil", code |-> 0]
                   /\ Name(p) \in DOMAIN chaincodes'
                   /\ chaincodes'[Name(p)] \notin Referenced(chaincodes, cc)
                   /\ ~closed'[chaincodes'[Name(p)]]
                   /\ \A n \in DOMAIN chaincodes \ {Name(p)} :
                         n \in DOMAIN chaincodes' /\ chaincodes'[n] = chaincodes[n]]_vars

\* A Start has failed in the create while the registry still holds the handle
\* an earlier successful Start registered.
C8_Witness ==
    \E p \in Procs :
        /\ Returned(p, "Start") /\ ret[p].err \in {"AlreadyExists", "CreateErr"}
        /\ GetInstance(Name(p)) # Nil

\* C9: the teardown is eager-fail: when a delete of an instance fails, Stop
\* returns that error, no further instance is deleted and the bundle is not
\* cleaned up.
C9_StopEagerFail ==
    \A p \in Procs :
        (StopReturned(p) /\ err[p] # "nil")
            => /\ ret[p].err = err[p]
               /\ "cmdelete" \notin Range(issued[p])
               /\ idx[p] \in 1..Len(items[p])
               /\ issued[p][Len(issued[p])] = "delete"
               /\ Cardinality({i \in 1..Len(issued[p]) :
                                  issued[p][i] = "delete"}) = idx[p]

\* A Stop has returned the error of its first delete with a second matching
\* instance left undeleted.
C9_Witness ==
    \E p \in Procs :
        /\ StopReturned(p) /\ ret[p].err \in {"DeleteErr", "PodNotFound"}
        /\ Len(items[p]) = 2 /\ idx[p] = 1
        /\ Cardinality({i \in 1..Len(issued[p]) : issued[p][i] = "delete"}) = 1

C12_BlockedWaitHoldsNoLock ==
    /\ mu = Nil
    /\ (\E w \in Procs : pc[w] = "waitRecv")
        => \A p \in Procs :
              Running =>
                 /\ pc[p] = "stopGet" => ENABLED StopGet(p)
                 /\ pc[p] = "stopRemove" => ENABLED StopRemove(p)
                 /\ pc[p] = "setInstance" => ENABLED SetInstance(p)
                 /\ CanCall(p, Waiting) => \A c \in CCIDs : ENABLED Wait(p, c)

\* A teardown is about to look a handle up while a Wait is blocked on it.
C12_Witness ==
    \E w \in Procs, p \in Procs :
        /\ Blocked(w, op[w].ccid)
        /\ pc[p] = "stopGet" /\ CurItem(p) = Name(w)
        /\ GetInstance(CurItem(p)) = cc[w]

\* C13: cleanup is idempotent: a Stop issued directly after a Stop that
\* returned success, whose query answers and finds nothing left to delete,
\* returns success as well.
C13_SecondStopSucceeds ==
    \A p \in Procs :
        (/\ Sequential /\ StopReturned(p) /\ stopped[p]
         /\ issued[p] = <<"list", "cmdelete">>)
            => ret[p].err = "nil"

\* C14: a Start that fails with the configuration error has issued no
\* orchestrator call and has left the orchestrator as it was.
C14_ConfigErrBeforeAnyCall ==
    \A p \in Procs :
        (Returned(p, "Start") /\ ret[p].err = "ConfigErr") => issued[p] = <<>>

\* C15: two distinct (owner, descriptor) pairs never derive the same name.
\* Stated for pairs that differ in the owner or in the descriptor's name.
C15_NamesUnique ==
    (/\ dnOut[1].done /\ dnOut[2].done
     /\ <<dnIn[1].peerID, dnIn[1].ccid.Name>> # <<dnIn[2].peerID, dnIn[2].ccid.Name>>)
        => dnOut[1].name # dnOut[2].name

\* The characters a derived name may hold.
SafeChars == Lower \cup Upper \cup Digit \cup {"-", "_", "."}

\* prefix-owner-name, or prefix-name for an empty owner, before sanitizing.
Unsanitized(in) ==
    IF in.peerID = <<>> THEN <<"c", "c", "-">> \o in.ccid.Name
    ELSE <<"c", "c", "-">> \o in.peerID \o <<"-">> \o in.ccid.Name

\* C16: the derived name is a function of its inputs: identical inputs give
\* identical names; it is the formatted string with every character outside
\* the safe set replaced by '-', position by position, so it has the length
\* of the formatted string and holds safe characters only.
C16_DeriveNameShape ==
    /\ \A i \in DOMAIN dnOut :
          dnOut[i].done =>
             LET raw == Unsanitized(dnIn[i])
                 out == dnOut[i].name
             IN  /\ Len(out) = Len(raw)
                 /\ \A k \in 1..Len(out) :
                       /\ out[k] \in SafeChars
                       /\ out[k] = IF raw[k] \in SafeChars THEN raw[k] ELSE "-"
    /\ \A i, j \in DOMAIN dnOut :
          (dnOut[i].done /\ dnOut[j].done /\ dnIn[i] = dnIn[j])
             => dnOut[i].name = dnOut[j].name

\* Two calls on the same input, with an owner and an unsafe character in the
\* name, have both returned.
C16_Witness ==
    /\ DOMAIN dnOut = 1..2
    /\ dnOut[1].done /\ dnOut[2].done
    /\ dnIn[1] = dnIn[2]
    /\ dnIn[1].peerID # <<>>
    /\ \E k \in 1..Len(dnIn[1].ccid.Name) : dnIn[1].ccid.Name[k] \notin SafeChars

\* The directory prefixes (ending in "/") that every key of the map starts with.
CommonDirs ==
    {pre \in UNION {{SubSeq(k, 1, n) : n \in 1..Len(k)} : k \in DOMAIN files} :
        /\ pre[Len(pre)] = "/"
        /\ \A k \in DOMAIN files : HasPrefix(k, pre)}

\* Run r has returned from a call on a non-empty map.
Packaged(r) == r \in DOMAIN run /\ run[r].pc = "done" /\ DOMAIN files # {}

\* C17: for a non-empty map whose keys share a directory prefix, the root
\* returned is a directory prefix common to all keys, and the new map has one
\* entry per file, under the key with the root stripped, with its payload.
C17_CommonRootExtracted ==
    \A r \in DOMAIN run :
        (Packaged(r) /\ CommonDirs # {})
            => LET root == run[r].rootPath
                   out == run[r].binaryData
               IN  /\ root \in CommonDirs
                   /\ Cardinality(DOMAIN out) = Cardinality(DOMAIN files)
                   /\ \A k \in DOMAIN files :
                         LET nk == SubSeq(k, Len(root) + 1, Len(k))
                         IN  nk \in DOMAIN out /\ out[nk] = files[k]
                   /\ \A nk \in DOMAIN out : ~HasPrefix(nk, root)

\* C18: every iteration of the root search strictly shortens the candidate
\* root, so the search ends after finitely many iterations.
C18_IterationShortens ==
    [][\A r \in DOMAIN run :
          (r \in DOMAIN run' /\ run'[r].iters = run[r].iters + 1)
              => Len(run'[r].rootPath) < Len(run[r].rootPath)]_vars

\* C19: for a non-empty map whose keys share no directory prefix, the root
\* returned is empty and the new map is the input map.
C19_NoCommonRootPassThrough ==
    \A r \in DOMAIN run :
        (Packaged(r) /\ CommonDirs = {})
            => /\ run[r].rootPath = <<>>
               /\ DOMAIN run[r].binaryData = DOMAIN files
               /\ \A k \in DOMAIN files : run[r].binaryData[k] = files[k]

\* C20: two runs on the same map return the same root and the same new map,
\* whichever key each started from.
C20_SameResultFromAnyKey ==
    \A r1, r2 \in DOMAIN run :
        (Packaged(r1) /\ Packaged(r2))
            => /\ run[r1].rootPath = run[r2].rootPath
               /\ DOMAIN run[r1].binaryData = DOMAIN run[r2].binaryData
               /\ \A k \in DOMAIN run[r1].binaryData :
                     run[r1].binaryData[k] = run[r2].binaryData[k]

\* C21: for the empty map extractCommonRoot returns the empty root and no
\* files, without searching.
C21_EmptyBundle ==
    \A r \in DOMAIN run :
        (run[r].pc # "begin" /\ DOMAIN files = {})
            => /\ run[r].pc = "done"
               /\ run[r].rootPath = <<>>
               /\ DOMAIN run[r].binaryData = {}
               /\ run[r].iters = 0

C21_Witness ==
    /\ DOMAIN run = 1..2
    /\ DOMAIN files = {}
    /\ run[1].pc = "done" /\ run[2].pc = "done"

\* The configuration key of a limit or request on a resource kind.
QuantityKey(mapping, kind) ==
    IF mapping = "limits"
    THEN (IF kind = "cpu" THEN "limits.cpu" ELSE "limits.memory")
    ELSE (IF kind = "cpu" THEN "requests.cpu" ELSE "requests.memory")

\* Mapping m (a function from names to quantities) holds quantity q for the
\* resource kind, under the kind's name or under the configuration key.
Holds(m, mapping, kind, q) ==
    \E n \in DOMAIN m : n \in {kind, QuantityKey(mapping, kind)} /\ m[n] = q

\* C22: a build that succeeds puts every configured limit into Limits and
\* every configured request into Requests, under its resource kind, and an
\* unset key gives no entry.
C22_LimitsAndRequests ==
    (rrOut.done /\ rrOut.err = "nil")
        => /\ \A kind \in {"cpu", "memory"} :
                 /\ rrCfg[QuantityKey("limits", kind)] # ""
                       => Holds(rrOut.res.Limits, "limits", kind,
                                rrCfg[QuantityKey("limits", kind)])
                 /\ rrCfg[QuantityKey("requests", kind)] # ""
                       => Holds(rrOut.res.Requests, "requests", kind,
                                rrCfg[QuantityKey("requests", kind)])
           /\ Cardinality(DOMAIN rrOut.res.Limits)
                 = Cardinality({kind \in {"cpu", "memory"} :
                                   rrCfg[QuantityKey("limits", kind)] # ""})
           /\ Cardinality(DOMAIN rrOut.res.Requests)
                 = Cardinality({kind \in {"cpu", "memory"} :
                                   rrCfg[QuantityKey("requests", kind)] # ""})

\* The first key, in the order of the build, whose string does not parse.
FirstMalformed(cfg) ==
    LET bad == {i \in 1..Len(ResourceKeys) :
                   cfg[ResourceKeys[i]] # "" /\ ~ParseQuantityOK(cfg[ResourceKeys[i]])}
    IN  IF bad = {} THEN ""
        ELSE ResourceKeys[CHOOSE i \in bad : \A j \in bad : i <= j]

\* C23: a build fails exactly when a configured string does not parse, it
\* returns empty requirements with the error, and the error names the first
\* malformed key: builds that fail on different keys return different errors.
C23_ErrorNamesKey ==
    rrOut.done
        => /\ (rrOut.err # "nil") = (FirstMalformed(rrCfg) # "")
           /\ rrOut.err # "nil"
                 => /\ DOMAIN rrOut.res.Limits = {}
                    /\ DOMAIN rrOut.res.Requests = {}
                    /\ \A cfg \in Configs :
                          (/\ FirstMalformed(cfg) # ""
                           /\ FirstMalformed(cfg) # FirstMalformed(rrCfg))
                              => getResourceRequest(cfg).err # rrOut.err

\* C24: every KEY=VALUE entry is split at its first "=": the list built has
\* one variable per entry, in order, the name holds no "=", and name, "=" and
\* value put together are the entry again.
C24_SplitOnFirstEq ==
    (envvars.done /\ \A i \in 1..Len(env) : FirstEq(env[i]) # 0)
        => /\ ~envvars.panic
           /\ Len(envvars.vars) = Len(env)
           /\ \A i \in 1..Len(env) :
                 /\ FirstEq(envvars.vars[i].Name) = 0
                 /\ envvars.vars[i].Name \o <<"=">> \o envvars.vars[i].Value = env[i]

\* Two entries have been split, one of them with a further "=" in its value.
C24_Witness ==
    /\ envvars.done /\ ~envvars.panic
    /\ Len(env) = 2 /\ env[1] # env[2]
    /\ \E i \in 1..2 : FirstEq(envvars.vars[i].Value) # 0 /\ envvars.vars[i].Name # <<>>

\* The entries of the names other than n are the same in maps m1 and m2.
OthersSame(m1, m2, n) ==
    \A m \in (DOMAIN m1 \cup DOMAIN m2) \ {n} :
        m \in DOMAIN m1 /\ m \in DOMAIN m2 /\ m1[m] = m2[m]

\* C25: SetInstance leaves the name mapped to the pointer it was given,
\* whatever was there; GetInstance returns the pointer of the name, nil for a
\* name without one, and changes nothing; RemoveInstance leaves the name
\* without an entry, also when it had none; none touches another name; and
\* the bodies exclude one another: one goroutine at most is inside a method,
\* it holds the mutex, and only its step changes the map.
C25_RegistrySemantics ==
    [][/\ \A p \in Procs :
             (pc[p] = "locked" /\ pc'[p] = "unlock")
                 => LET n == op[p].name
                    IN  /\ OthersSame(chaincodes, chaincodes', n)
                        /\ op[p].kind = "SetInstance"
                              => n \in DOMAIN chaincodes' /\ chaincodes'[n] = op[p].inst
                        /\ op[p].kind = "GetInstance"
                              => /\ chaincodes' = chaincodes
                                 /\ cc'[p] = IF n \in DOMAIN chaincodes
                                             THEN chaincodes[n] ELSE Nil
                        /\ op[p].kind = "RemoveInstance"
                              => n \notin DOMAIN chaincodes'
       /\ Cardinality({p \in Procs : pc'[p] \in {"locked", "unlock"}}) <= 1
       /\ \A p \in Procs : pc'[p] \in {"locked", "unlock"} => mu' = p
       /\ chaincodes' # chaincodes
             => \E p \in Procs : mu = p /\ pc[p] = "locked"]_vars

\* A lookup has returned the pointer registered for a name that has another
\* entry beside it, while the other goroutine waits for the mutex.
C25_Witness ==
    \E p, q \in Procs :
        /\ pc[p] = "unlock" /\ op[p].kind = "GetInstance" /\ cc[p] # Nil
        /\ pc[q] = "lock" /\ op[q].kind = "RemoveInstance"
        /\ Cardinality(DOMAIN chaincodes) = 2

\* The key GetKey returns for an SKI when its request goes through.
Stored(ski) == GetKeyResult(ski, TRUE)

\* C26: a StoreKey of a key whose SKI the store holds a key for returns an
\* error and leaves the key GetKey returns for that SKI as it was.
C26_WriteOncePerSKI ==
    [][\A ski \in SKIs :
          (Stored(ski).err = "nil" /\ ksRet'.call = "StoreKey" /\ ksRet'.ski = ski)
              => ksRet'.err # "nil" /\ Stored(ski)' = Stored(ski)]_vars

\* After a StoreKey that returned no error, GetKey returns a key of the SKI.
C26_StoredIsRetrieved ==
    (ksRet.call = "StoreKey" /\ ksRet.err = "nil")
        => Stored(ksRet.ski).err = "nil" /\ Stored(ksRet.ski).key.ski = ksRet.ski

\* A StoreKey of an SKI stored before has returned the error of the lookup.
C26_Refused ==
    ksRet.call = "StoreKey" /\ ksRet.err = "already exists"

\* C27: the Remove step of a teardown deletes from the registry the handle
\* the teardown has closed, or nothing: never a handle another Start has
\* registered under the name since the teardown's lookup.
C27_RemovesOnlyOwnHandle ==
    [][\A p \in Procs :
          (pc[p] = "stopRemove" /\ pc'[p] # "stopRemove")
              => GetInstance(CurItem(p)) \in {Nil, cc[p]}]_vars

\* C28: every Wait still blocked is blocked on the handle registered under
\* its name.
C28_NoWaiterOrphaned ==
    \A w \in Procs :
        Blocked(w, op[w].ccid) => GetInstance(Name(w)) = cc[w]

DeleteErrs == {"DeleteErr", "PodNotFound"}

\* C29: in the loop of the teardown a handle registered under the name of the
\* listed instance is taken to the close whatever the delete returned, the
\* close is followed by the remove, and the remove leaves the name without an
\* entry; a Stop returns the error of a delete only from the lookup that
\* found no handle or from the remove of a handle it has closed, every
\* waiter on that handle being released.
C29_HandleReleasedDespiteDeleteError ==
    [][\A p \in Procs :
          /\ (pc[p] = "stopGet" /\ pc'[p] # "stopGet" /\ GetInstance(CurItem(p)) # Nil)
                => pc'[p] = "stopClose" /\ cc'[p] = GetInstance(CurItem(p))
          /\ (pc[p] = "stopClose" /\ pc'[p] # "stopClose")
                => pc'[p] = "stopRemove" /\ closed'[cc[p]]
          /\ (pc[p] = "stopRemove" /\ pc'[p] # "stopRemove")
                => CurItem(p) \notin DOMAIN chaincodes'
          /\ (pc[p] # "ret" /\ pc'[p] = "ret" /\ op'[p].kind = "Stop"
                 /\ ret'[p].err \in DeleteErrs)
                => \/ pc[p] = "stopGet" /\ GetInstance(CurItem(p)) = Nil
                   \/ /\ pc[p] = "stopRemove" /\ closed[cc[p]]
                      /\ CurItem(p) \notin DOMAIN chaincodes'
                      /\ \A w \in Procs :
                            (pc[w] = "waitRecv" /\ cc[w] = cc[p]) => closed'[cc[w]]]_vars

\* A Stop has returned the error of a delete that failed on a live instance,
\* and a Wait that was blocked when the Stop began holds a closed handle
\* that is no longer registered.
C29_Witness ==
    \E p, w \in Procs :
        /\ Returned(p, "Stop") /\ ret[p].err = "DeleteErr"
        /\ w \in op[p].waiting
        /\ pc[w] = "waitRecv" /\ closed[cc[w]]
        /\ Name(w) \notin DOMAIN chaincodes

\* C30: a Stop whose list fails returns that error in the same step, with the
\* list its only request and with the pods, the bundles, the registry and the
\* handles as they were, every blocked Wait still blocked; a Stop that goes
\* on to the teardown has been given all the matching instances.
C30_ListFailureNoEffect ==
    [][\A p \in Procs :
          (pc[p] = "idle" /\ op'[p].kind = "Stop" /\ ~op'[p].dontremove)
              => \/ /\ pc'[p] = "ret" /\ ret'[p].err = "ListErr"
                    /\ issued'[p] = <<"list">>
                    /\ UNCHANGED <<pods, configmaps, chaincodes, closed, panicked>>
                    /\ \A w \in Procs :
                          Blocked(w, op[w].ccid)
                              => pc'[w] = "waitRecv" /\ ~closed'[cc'[w]]
                 \/ /\ pc'[p] \in {"stopDelete", "stopDelCM"}
                    /\ Range(items'[p]) = FindPeerCCPods(op'[p].ccid)]_vars

\* A Stop has returned the error of its list while the instance is live, its
\* bundle is in place and a Wait on it is blocked on the registered handle.
C30_Witness ==
    \E p, w \in Procs :
        /\ Returned(p, "Stop") /\ ret[p].err = "ListErr"
        /\ \E q \in pods : q.name = Name(p)
        /\ Name(p) \in configmaps
        /\ Blocked(w, op[p].ccid) /\ GetInstance(Name(p)) = cc[w]

\* C31: a Stop with dontremove set returns nil in the step of the call, with
\* no request issued and with the pods, the bundles, the registry and the
\* handles as they were, every blocked Wait still blocked; and every step of
\* a Stop is also a step of the Stop with dontkill the other way.
C31_DontRemoveNoEffect ==
    [][/\ \A p \in Procs :
             (pc[p] = "idle" /\ op'[p].kind = "Stop" /\ op'[p].dontremove)
                 => /\ pc'[p] = "ret" /\ ret'[p].err = "nil"
                    /\ issued'[p] = <<>>
                    /\ UNCHANGED <<pods, configmaps, chaincodes, closed, panicked>>
                    /\ \A w \in Procs :
                          Blocked(w, op[w].ccid)
                              => pc'[w] = "waitRecv" /\ ~closed'[cc'[w]]
       /\ \A p \in Procs, c \in CCIDs, dontkill \in BOOLEAN, dontremove \in BOOLEAN :
             Stop(p, c, dontkill, dontremove) => Stop(p, c, ~dontkill, dontremove)]_vars

\* A Stop with dontremove set has returned nil while the instance is live,
\* its bundle is in place and a Wait on it is blocked on the registered
\* handle.
C31_Witness ==
    \E p, w \in Procs :
        /\ Returned(p, "Stop") /\ op[p].dontremove /\ ret[p].err = "nil"
        /\ \E q \in pods : q.name = Name(p)
        /\ Name(p) \in configmaps
        /\ Blocked(w, op[p].ccid) /\ GetInstance(Name(p)) = cc[w]

====
